---- MODULE Spec2Model ----
(***************************************************************************)
(* Model of the physics-backend abstraction layer:                         *)
(*   - PhysicsEngine (physics/PhysicsEngine.hh): the contact-pair registry *)
(*     contactPairs with AddLinkPair / AreTouching, and the default        *)
(*     engine-parameter accessors;                                         *)
(*   - BulletJoint (physics/bullet/BulletJoint.hh): the optional joint     *)
(*     operations the Bullet backend leaves unimplemented;                 *)
(*   - the collision pass (UpdateCollision), which is pure virtual in the  *)
(*     base class and is modelled from the design document.                *)
(***************************************************************************)
EXTENDS Integers, Sequences, FiniteSets, TLC

----------------------------------------------------------------------------
(* Bounds *)

\* number of distinct Link objects (LinkPtr values) in the world
NumLinks == 3

\* largest argument handed to an engine-parameter setter / joint setter
MaxParam == 2

\* largest number of contacts one collision pass reports
MaxPassPairs == 1

\* number of collision passes explored
MaxSteps == 3

\* number of joint calls explored (length of the gzerr log)
MaxLog == 2

----------------------------------------------------------------------------
(* Values *)

\* LinkPtr values: reference identity, so distinct numbers
Links == 1..NumLinks

\* doubles / ints handed to the setters
ParamValues == 0..MaxParam

\* the result of a function returning void
Void == "void"

\* std::map<LinkPtr, LinkPtr>() : the empty map
EmptyMap == <<>>

\* the entries (key, partner) a map holds
Entries(m) == {<<k, m[k]>> : k \in DOMAIN m}

\* an unordered pair of links, as the set of its members
Pair(a, b) == {a, b}

\* a call record: name, two arguments, returned value
Op(name, a, b, ret) == [name |-> name, a |-> a, b |-> b, ret |-> ret]

VARIABLES
  contactPairs,   \* PhysicsEngine::contactPairs : a function on the keys present
  added,          \* history: unordered pairs handed to AddLinkPair since the map was empty
  before,         \* history: contactPairs as it was before the last call
  lastOp,         \* history: the last call and what it returned
  twice,          \* history: the last call repeats the call before it
  afterSet,       \* history: the last call is a getter that follows its setter
  stepIndex,      \* number of collision passes run
  passAdded,      \* history: pairs reported during the last collision pass
  prevPassAdded,  \* history: pairs reported during the pass before it
  gzerr           \* BulletJoint: the messages written to the error log

vars == <<contactPairs, added, before, lastOp, twice, afterSet, stepIndex,
          passAdded, prevPassAdded, gzerr>>

registryVars == <<contactPairs, added, before, twice, afterSet>>
passVars == <<stepIndex, passAdded, prevPassAdded>>

----------------------------------------------------------------------------
(* PhysicsEngine: contact registry *)

\* contactPairs.find(k) == contactPairs.end()
NotFound(m, k) == k \notin DOMAIN m

\* contactPairs.insert(std::make_pair(k, v)) : keeps an existing entry
Insert(m, k, v) == m @@ (k :> v)

\* mutant of AddLinkPair: the second test hangs off the first as an else-if
AddLinkPairElseIf(m, link1, link2) ==
  IF NotFound(m, link1) THEN Insert(m, link1, link2)
  ELSE IF NotFound(m, link2) THEN Insert(m, link2, link1)
  ELSE m

\* PhysicsEngine::AddLinkPair : the map after the call
AddLinkPair(m, link1, link2) ==
  LET m1 == IF NotFound(m, link1) THEN Insert(m, link1, link2) ELSE m
  IN  IF NotFound(m1, link2) THEN Insert(m1, link2, link1) ELSE m1

\* mutant of AreTouching: the partner comparison is dropped
AreTouchingKeyOnly(m, link1, link2) ==
  IF NotFound(m, link1) /\ NotFound(m, link2) THEN FALSE ELSE TRUE

\* PhysicsEngine::AreTouching : the value returned
AreTouching(m, link1, link2) ==
  IF /\ (NotFound(m, link1) \/ m[link1] # link2)
     /\ (NotFound(m, link2) \/ m[link2] # link1)
  THEN FALSE
  ELSE TRUE

\* the registry part of a call of AddLinkPair(link1, link2)
AddLinkPairStep(link1, link2) ==
  /\ contactPairs' = AddLinkPair(contactPairs, link1, link2)
  /\ before' = contactPairs
  /\ twice' = (lastOp.name = "AddLinkPair" /\ lastOp.a = link1 /\ lastOp.b = link2)
  /\ lastOp' = Op("AddLinkPair", link1, link2, Void)
  /\ afterSet' = FALSE

\* a call of AddLinkPair(link1, link2)
AddLinkPairCall(link1, link2) ==
  /\ AddLinkPairStep(link1, link2)
  /\ UNCHANGED <<added, passVars, gzerr>>

\* a call of AddLinkPair(link1, link2), with the pair written to the history
AddLinkPairLogged(link1, link2) ==
  /\ contactPairs' = AddLinkPair(contactPairs, link1, link2)
  /\ added' = added \cup {Pair(link1, link2)}
  /\ UNCHANGED <<before, lastOp, twice, afterSet, passVars, gzerr>>

\* a call of AreTouching(link1, link2)
AreTouchingCall(link1, link2) ==
  /\ lastOp' = Op("AreTouching", link1, link2,
                  AreTouching(contactPairs, link1, link2))
  /\ before' = contactPairs
  /\ twice' = FALSE
  /\ afterSet' = FALSE
  /\ UNCHANGED <<contactPairs, added, passVars, gzerr>>

----------------------------------------------------------------------------
(* PhysicsEngine: engine-parameter accessors of the base class *)

\* the body {} of a base-class setter: the call returns, nothing is assigned
SetterCall(name, value) ==
  /\ lastOp' = Op(name, value, 0, Void)
  /\ before' = contactPairs
  /\ twice' = FALSE
  /\ afterSet' = FALSE
  /\ UNCHANGED <<contactPairs, added, passVars, gzerr>>

\* a base-class getter: the call returns ret, nothing is assigned
GetterCall(name, setter, ret) ==
  /\ lastOp' = Op(name, 0, 0, ret)
  /\ before' = contactPairs
  /\ twice' = FALSE
  /\ afterSet' = (lastOp.name = setter /\ lastOp.a # ret)
  /\ UNCHANGED <<contactPairs, added, passVars, gzerr>>

SetWorldCFM(cfm_) == SetterCall("SetWorldCFM", cfm_)
SetWorldERP(erp_) == SetterCall("SetWorldERP", erp_)
SetAutoDisableFlag(autoDisable_) == SetterCall("SetAutoDisableFlag", autoDisable_)
SetSORPGSIters(iters_) == SetterCall("SetSORPGSIters", iters_)
SetSORPGSW(w_) == SetterCall("SetSORPGSW", w_)
SetContactMaxCorrectingVel(vel_) == SetterCall("SetContactMaxCorrectingVel", vel_)
SetContactSurfaceLayer(layerDepth_) == SetterCall("SetContactSurfaceLayer", layerDepth_)
SetMaxContacts(maxContacts_) == SetterCall("SetMaxContacts", maxContacts_)

\* the values the base-class getters return
GetWorldCFM == 0
GetWorldERP == 0
\* mutant of GetAutoDisableFlag: return 1
GetAutoDisableFlagOn == TRUE
\* bool GetAutoDisableFlag() {return 0;} : 0 converted to bool
GetAutoDisableFlag == FALSE
GetSORPGSIters == 0
GetSORPGSW == 0
GetContactMaxCorrectingVel == 0
GetContactSurfaceLayer == 0
GetMaxContacts == 0

GetWorldCFMCall == GetterCall("GetWorldCFM", "SetWorldCFM", GetWorldCFM)
GetWorldERPCall == GetterCall("GetWorldERP", "SetWorldERP", GetWorldERP)
GetAutoDisableFlagCall == GetterCall("GetAutoDisableFlag", "SetAutoDisableFlag", GetAutoDisableFlag)
GetSORPGSItersCall == GetterCall("GetSORPGSIters", "SetSORPGSIters", GetSORPGSIters)
GetSORPGSWCall == GetterCall("GetSORPGSW", "SetSORPGSW", GetSORPGSW)
GetContactMaxCorrectingVelCall ==
  GetterCall("GetContactMaxCorrectingVel", "SetContactMaxCorrectingVel", GetContactMaxCorrectingVel)
GetContactSurfaceLayerCall ==
  GetterCall("GetContactSurfaceLayer", "SetContactSurfaceLayer", GetContactSurfaceLayer)
GetMaxContactsCall == GetterCall("GetMaxContacts", "SetMaxContacts", GetMaxContacts)

SetterNames ==
  {"SetWorldCFM", "SetWorldERP", "SetAutoDisableFlag", "SetSORPGSIters",
   "SetSORPGSW", "SetContactMaxCorrectingVel", "SetContactSurfaceLayer",
   "SetMaxContacts"}

NumericGetterNames ==
  {"GetWorldCFM", "GetWorldERP", "GetSORPGSIters", "GetSORPGSW",
   "GetContactMaxCorrectingVel", "GetContactSurfaceLayer", "GetMaxContacts"}

----------------------------------------------------------------------------
(* The collision pass *)

\* ContactRegistry Clear() : the map after the call
Clear(m) == EmptyMap

RECURSIVE AddPairs(_, _)
\* AddLinkPair for each contact of the pass, in the order detected
AddPairs(m, pairs) ==
  IF pairs = <<>> THEN m
  ELSE AddPairs(AddLinkPair(m, Head(pairs)[1], Head(pairs)[2]), Tail(pairs))

\* the contact lists one pass can report
PassInputs ==
  UNION {[1..n -> Links \X Links] : n \in 0..MaxPassPairs}

\* UpdateCollision() : clears the registry, then registers the contacts detected
UpdateCollision(pairs) ==
  /\ stepIndex < MaxSteps
  /\ contactPairs' = AddPairs(Clear(contactPairs), pairs)
  /\ stepIndex' = stepIndex + 1
  /\ prevPassAdded' = passAdded
  /\ passAdded' = {Pair(pairs[i][1], pairs[i][2]) : i \in 1..Len(pairs)}
  /\ before' = contactPairs
  /\ twice' = FALSE
  /\ afterSet' = FALSE
  /\ lastOp' = Op("UpdateCollision", Len(pairs), 0, Void)
  /\ UNCHANGED <<added, gzerr>>

----------------------------------------------------------------------------
(* BulletJoint: operations not implemented in Bullet *)

\* math::Vector3 values
Vector3Set == ParamValues \X ParamValues \X ParamValues

\* math::Vector3() : the default-constructed vector
Vector3Default == <<0, 0, 0>>

\* the index argument: the body or axis, 0 or 1
JointIndex == {0, 1}

\* Joint::Attribute enumerators
Attributes == ParamValues

\* gzerr << "Not implement in Bullet\n" , then return ret
NotImplemented(name, a, b, ret) ==
  /\ gzerr < MaxLog
  /\ gzerr' = gzerr + 1
  /\ lastOp' = Op(name, a, b, ret)
  /\ UNCHANGED <<registryVars, passVars>>

SetAnchor(index, anchor) == NotImplemented("SetAnchor", index, anchor, Void)
SetDamping(index, damping) == NotImplemented("SetDamping", index, damping, Void)
GetAnchor(index) == NotImplemented("GetAnchor", index, 0, Vector3Default)
GetLinkForce(index) == NotImplemented("GetLinkForce", index, 0, Vector3Default)
GetLinkTorque(index) == NotImplemented("GetLinkTorque", index, 0, Vector3Default)
SetAttribute(attr, index, value) ==
  NotImplemented("SetAttribute", index, <<attr, value>>, Void)

\* the operations that hand a math::Vector3 back to the caller
JointGetterNames == {"GetAnchor", "GetLinkForce", "GetLinkTorque"}

----------------------------------------------------------------------------
Init ==
  /\ contactPairs = EmptyMap
  /\ added = {}
  /\ before = EmptyMap
  /\ lastOp = Op("PhysicsEngine", 0, 0, Void)
  /\ twice = FALSE
  /\ afterSet = FALSE
  /\ stepIndex = 0
  /\ passAdded = {}
  /\ prevPassAdded = {}
  /\ gzerr = 0

\* the engine of a backend that overrides none of the accessors
Next ==
  \/ \E link1 \in Links, link2 \in Links : AddLinkPairCall(link1, link2)
  \/ \E link1 \in Links, link2 \in Links : AreTouchingCall(link1, link2)
  \/ \E v \in ParamValues : SetWorldCFM(v)
  \/ \E v \in ParamValues : SetWorldERP(v)
  \/ \E v \in BOOLEAN : SetAutoDisableFlag(v)
  \/ \E v \in ParamValues : SetSORPGSIters(v)
  \/ \E v \in ParamValues : SetSORPGSW(v)
  \/ \E v \in ParamValues : SetContactMaxCorrectingVel(v)
  \/ \E v \in ParamValues : SetContactSurfaceLayer(v)
  \/ \E v \in ParamValues : SetMaxContacts(v)
  \/ GetWorldCFMCall
  \/ GetWorldERPCall
  \/ GetAutoDisableFlagCall
  \/ GetSORPGSItersCall
  \/ GetSORPGSWCall
  \/ GetContactMaxCorrectingVelCall
  \/ GetContactSurfaceLayerCall
  \/ GetMaxContactsCall

Spec == Init /\ [][Next]_vars

\* the registry alone, with the history of the pairs added
NextHistory ==
  \E link1 \in Links, link2 \in Links : AddLinkPairLogged(link1, link2)

SpecHistory == Init /\ [][NextHistory]_vars

\* the step loop: one collision pass after another
NextPass ==
  \E pairs \in PassInputs : UpdateCollision(pairs)

SpecPass == Init /\ [][NextPass]_vars

\* a Bullet joint
NextJoint ==
  \/ \E index \in JointIndex, anchor \in Vector3Set : SetAnchor(index, anchor)
  \/ \E index \in JointIndex, damping \in ParamValues : SetDamping(index, damping)
  \/ \E index \in JointIndex : GetAnchor(index)
  \/ \E index \in JointIndex : GetLinkForce(index)
  \/ \E index \in JointIndex : GetLinkTorque(index)
  \/ \E attr \in Attributes, index \in JointIndex, value \in ParamValues :
       SetAttribute(attr, index, value)

SpecJoint == Init /\ [][NextJoint]_vars

----------------------------------------------------------------------------
(* Properties *)

\* C1: immediately after AddLinkPair(a, b), from any reachable registry,
\* AreTouching(a, b) and AreTouching(b, a) both return true.
C1_AddedPairTouches ==
  lastOp.name = "AddLinkPair" =>
    /\ AreTouching(contactPairs, lastOp.a, lastOp.b)
    /\ AreTouching(contactPairs, lastOp.b, lastOp.a)

\* C2: the directed entries are symmetric: whenever the map holds A -> B it
\* also holds B -> A.
C2_EntriesSymmetric ==
  \A e \in Entries(contactPairs) : <<e[2], e[1]>> \in Entries(contactPairs)

\* C3: AddLinkPair is idempotent: a second AddLinkPair(a, b) right after the
\* first leaves contactPairs, and so every AreTouching answer, as it was.
C3_Idempotent ==
  (lastOp.name = "AddLinkPair" /\ twice) =>
    /\ contactPairs = before
    /\ \A a \in Links, b \in Links :
         AreTouching(contactPairs, a, b) = AreTouching(before, a, b)

\* C3 witness: the same pair of distinct links was added twice in a row
C3_Witness ==
  /\ lastOp.name = "AddLinkPair"
  /\ twice
  /\ lastOp.a # lastOp.b
  /\ AreTouching(contactPairs, lastOp.a, lastOp.b)

\* C4: starting from the empty registry, a pair that was never handed to
\* AddLinkPair, in either order, is not reported by AreTouching, whatever other
\* pairs were added.
C4_NonMembership ==
  \A a \in Links, b \in Links :
    Pair(a, b) \notin added => ~AreTouching(contactPairs, a, b)

\* C4 witness: a and b were each added with a third link, never with each other
C4_Witness ==
  \E a \in Links, b \in Links, c \in Links :
    /\ a # b /\ a # c /\ b # c
    /\ Pair(a, b) \notin added
    /\ Pair(a, c) \in added
    /\ Pair(b, c) \in added
    /\ ~NotFound(contactPairs, a)
    /\ ~NotFound(contactPairs, b)

\* C5: AreTouching(linkA, linkB) returns true exactly when the map holds the
\* entry linkA -> linkB or the entry linkB -> linkA, and it leaves contactPairs
\* as it was.
C5_AreTouchingIff ==
  lastOp.name = "AreTouching" =>
    /\ lastOp.ret = (\/ <<lastOp.a, lastOp.b>> \in Entries(before)
                     \/ <<lastOp.b, lastOp.a>> \in Entries(before))
    /\ contactPairs = before

\* C5 witness: the query is answered true from the second link's entry alone,
\* the first link being registered with another partner
C5_Witness ==
  /\ lastOp.name = "AreTouching"
  /\ lastOp.ret = TRUE
  /\ ~NotFound(before, lastOp.a)
  /\ before[lastOp.a] # lastOp.b
  /\ <<lastOp.b, lastOp.a>> \in Entries(before)

\* C6: on the base class every engine-parameter getter returns its neutral
\* default (0, false for the auto-disable flag) whatever setters were called,
\* and a setter returns normally and changes no engine state.
C6_NeutralDefaults ==
  /\ lastOp.name \in NumericGetterNames => lastOp.ret = 0
  /\ lastOp.name = "GetAutoDisableFlag" => lastOp.ret = FALSE
  /\ lastOp.name \in SetterNames => (lastOp.ret = Void /\ contactPairs = before)

\* C6 witness: the auto-disable flag is read right after it was set to true,
\* on an engine whose registry is not empty
C6_Witness ==
  /\ lastOp.name = "GetAutoDisableFlag"
  /\ afterSet
  /\ contactPairs # EmptyMap

\* C7: the value an unsupported Bullet joint operation returns (GetAnchor,
\* GetLinkForce, GetLinkTorque) is a sentinel: it equals no value that a
\* backend supporting the operation could return, the zero vector included.
C7_Distinguishable ==
  lastOp.name \in JointGetterNames => lastOp.ret \notin Vector3Set

\* C8: after AddLinkPair(a, b) followed by AddLinkPair(a, c) with b # c, the
\* entry keyed a holds c and AreTouching(a, c) is true.
C8_LatestPartner ==
  [][(/\ lastOp.name = "AddLinkPair"
      /\ lastOp'.name = "AddLinkPair"
      /\ lastOp'.a = lastOp.a
      /\ lastOp'.b # lastOp.b)
     => (/\ contactPairs'[lastOp'.a] = lastOp'.b
         /\ AreTouching(contactPairs', lastOp'.a, lastOp'.b))]_vars

C10_FreshPair ==
  (/\ lastOp.name = "AddLinkPair"
   /\ lastOp.a # lastOp.b
   /\ NotFound(before, lastOp.a)
   /\ NotFound(before, lastOp.b)) =>
    /\ ~AreTouching(before, lastOp.a, lastOp.b)
    /\ ~AreTouching(before, lastOp.b, lastOp.a)
    /\ AreTouching(contactPairs, lastOp.a, lastOp.b)
    /\ AreTouching(contactPairs, lastOp.b, lastOp.a)
    /\ Entries(contactPairs) =
         Entries(before) \cup {<<lastOp.a, lastOp.b>>, <<lastOp.b, lastOp.a>>}

\* C10 witness: the fresh pair is added to a registry that already holds entries
C10_Witness ==
  /\ lastOp.name = "AddLinkPair"
  /\ lastOp.a # lastOp.b
  /\ NotFound(before, lastOp.a)
  /\ NotFound(before, lastOp.b)
  /\ before # EmptyMap

====
